---- MODULE Spec2Model ----
(***************************************************************************)
(* RingMPSC (src/c_impl/ringmpsc.h, src/c_impl/bench.c): a channel made of *)
(* MAX_PRODUCERS single-producer/single-consumer rings.                    *)
(*                                                                         *)
(* Every access to an atomic object (tail, head, closed, active,           *)
(* producer_count) is one step; the statements between two such accesses   *)
(* only touch the thread's locals and belong to the step of the access     *)
(* that precedes them.  Each write of a buffer slot and each handler call  *)
(* is a step of its own.                                                   *)
(*                                                                         *)
(* The release stores of tail (ring_commit) and head (ring_consume_batch,  *)
(* ring_consume_up_to) are not ordered before the later loads of the       *)
(* thread that makes them: a store first enters the store buffer of its    *)
(* thread, where only that thread's own loads see it, and reaches the      *)
(* memory the other threads load from in a later step (ProducerFlush,      *)
(* ConsumerFlush), in the order of the stores.  tail and head are that     *)
(* memory.  All other atomic accesses act on memory in their own step.     *)
(*                                                                         *)
(* An access to rings[i] with MAX_PRODUCERS <= i is an access to the       *)
(* memory after the array (beyond): the word of producer_count where       *)
(* rings[MAX_PRODUCERS].tail lies, and words outside the channel, whose    *)
(* contents are arbitrary.                                                 *)
(*                                                                         *)
(* A uint64_t is a 64-bit word.  The words 0 .. Near are the integers; a   *)
(* word above Near is known by its low RING_BITS bits only (Far), so that  *)
(* a loop that counts through such words, as while (pos != tail) does on   *)
(* a ring after the array, goes on for as long as its word is Far.         *)
(***************************************************************************)
EXTENDS Integers, Sequences, FiniteSets

(* ------------------------------------------------------------------ *)
(* Configuration                                                       *)
(* ------------------------------------------------------------------ *)

\* ringmpsc.h:38-40, a compile-time setting (#ifndef RING_BITS); the model
\* is built with -DRING_BITS=3.
RING_BITS == 3
RING_CAPACITY == 2 ^ RING_BITS
RING_MASK == RING_CAPACITY - 1

\* ringmpsc.h:45-47, a compile-time setting; the model is built with
\* -DMAX_PRODUCERS=2.
MAX_PRODUCERS == 2

\* bench.c:18, scaled down: the number of values the benchmark producer sends.
MESSAGES_PER_PRODUCER == 13

\* The largest max_items the consumer passes to ring_consume_up_to.
MaxItems == 2

\* The number of channel_register calls beyond MAX_PRODUCERS.
ExtraCalls == 1

\* The number of values a registered producer sends with producer_send.
MaxSend == 2

\* The words the model tells apart are 0 .. Near (see Word).  Every index of
\* a ring of the array stays below it.
Near == MESSAGES_PER_PRODUCER + 1

\* The number of stores a thread's store buffer holds; a store waits while
\* the buffer is full.
StoreBufferDepth == 1

NumThreads == MAX_PRODUCERS + ExtraCalls
Threads == 1 .. NumThreads
Rings == 0 .. (MAX_PRODUCERS - 1)

\* rings[i] for MAX_PRODUCERS <= i lies after the array: the indices a
\* producer_count raised by the calls over the ceiling can reach.
OobRings == MAX_PRODUCERS .. (NumThreads - 1)

NULL == -1           \* a null slot pointer / no ring
NoRet == 1           \* channel_register has not returned

VARIABLES
    tail,            \* [Rings -> uint64]  ring.tail
    cached_head,     \* [Rings -> uint64]  ring.cached_head
    head,            \* [Rings -> uint64]  ring.head
    active,          \* [Rings -> BOOLEAN] ring.active
    closed,          \* [Rings -> BOOLEAN] ring.closed
    buffer,          \* [Rings -> [0..RING_MASK -> uint64]]
    producer_count,  \* channel.producer_count
    ch_closed,       \* channel.closed
    prod,            \* [Threads -> locals of a producer thread]
    cons,            \* locals of the consumer thread, and what its handler saw
    closer,          \* locals of the thread that calls channel_close
    committed,       \* [Rings -> Seq]: the values published by ring_commit
    delivered,       \* [Rings -> Seq]: the values the handler was called on
    oob,             \* the indices >= MAX_PRODUCERS at which rings[] was accessed
    beyond           \* [OobRings -> the words at rings[i].head and .tail]

vars == << tail, cached_head, head, active, closed, buffer, producer_count,
           ch_closed, prod, cons, closer, committed, delivered, oob, beyond >>

ringVars == << tail, cached_head, head, closed, buffer, committed, delivered >>
chanVars == << active, producer_count, ch_closed, oob, beyond >>

(* ------------------------------------------------------------------ *)
(* Arithmetic of the code                                              *)
(* ------------------------------------------------------------------ *)

\* uint64_t.  A 64-bit word w is written as the integer w when w <= Near and
\* as Far(w mod RING_CAPACITY) otherwise.  The words up to Near keep the
\* arithmetic of the code.  A Far word is any one of the words above Near with
\* these low bits, 2^64 - 1 among them: it differs from every word up to
\* Near, and what a step makes of it is every outcome one of these words
\* gives, the wrap at 2^64 included (Far(RING_MASK) + 1 may be 0).
FarWords == 2 ^ 20
Far(m) == FarWords + m
Exact(w) == w \in 0 .. Near
Word == (0 .. Near) \cup {Far(m) : m \in 0 .. RING_MASK}

\* The word of the integer i, the result of an operation on two words up to
\* Near: a negative i is the word 2^64 + i
Norm(i) == IF Exact(i) THEN i ELSE Far(i % RING_CAPACITY)

\* a < b on uint64_t, one of a and b up to Near: a Far word is the larger
ULt(a, b) == a < b

\* a - b on uint64_t, a and b up to Near
USub(a, b) == Norm(a - b)

\* a + b on uint64_t, a and b up to Near
UAdd(a, b) == Norm(a + b)

\* a + b on uint64_t, every word it can be: a sum up to Near of a word up to
\* Near and a Far word is one that the Far word has wrapped to.
Sum(a, b) ==
    IF Exact(a) /\ Exact(b) THEN {UAdd(a, b)}
    ELSE LET low == (a + b) % RING_CAPACITY IN
         {Far(low)} \cup
         {e \in 0 .. Near :
             /\ e % RING_CAPACITY = low
             /\ Exact(a) => ~Exact(e - a)
             /\ Exact(b) => ~Exact(e - b)}

\* a - b on uint64_t, every word it can be
Diff(a, b) ==
    IF Exact(a) /\ Exact(b) THEN {USub(a, b)}
    ELSE LET low == (a - b) % RING_CAPACITY IN
         {Far(low)} \cup
         {e \in 0 .. Near :
             /\ e % RING_CAPACITY = low
             /\ Exact(a) => ~Exact(a - e)
             /\ Exact(b) => ~Exact(e + b)}

\* a != b on uint64_t, every outcome it can have: two Far words with the same
\* low bits may be the same word or not
Differ(a, b) ==
    IF Exact(a) \/ Exact(b) \/ a # b THEN {a # b} ELSE BOOLEAN

\* The contents an index word outside the rings may have: every word.
Garbage == Word

\* pos & RING_MASK (RING_CAPACITY is a power of two)
Idx(pos) == pos % RING_CAPACITY

\* Mutant: one slot of the ring is never used.
Space_Mut(tl, ch) == USub(RING_CAPACITY - 1, USub(tl, ch))

\* RING_CAPACITY - (tail - r->cached_head)
Space(tl, ch) == USub(RING_CAPACITY, USub(tl, ch))

\* Mutant: the test accepts a ring with no space left.
ReserveFits_Mut(space) == ~ULt(space, 0)

\* ring_reserve: the test that lets a reserve of one slot succeed
ReserveFits(space) == ~ULt(space, 1)

\* Mutant: the test is off by one and grants one slot more than is free.
ReserveNFits_Mut(space, n) == ~ULt(space + 1, n)

\* ring_reserve_n: the test that lets a reserve of n slots succeed
ReserveNFits(space, n) == ~ULt(space, n)

\* Mutant: the n == 0 half of the argument check is missing.
ReserveNArgOk_Mut(n) == ~(n > RING_CAPACITY)

\* ring_reserve_n: the argument check
ReserveNArgOk(n) == ~(n = 0 \/ n > RING_CAPACITY)

\* Mutant: the clamp of contiguous to n is missing.
Contiguous_Mut(tl, n) == RING_CAPACITY - Idx(tl)

\* Mutant: the distance to the end of the buffer is taken from the unmasked tail.
Contiguous_NoMask(tl, n) ==
    LET c == RING_CAPACITY - tl IN IF c > n THEN n ELSE c

\* ring_reserve_n: contiguous = RING_CAPACITY - idx; if (contiguous > n) contiguous = n
Contiguous(tl, n) ==
    LET c == RING_CAPACITY - Idx(tl) IN IF c > n THEN n ELSE c

\* ring_len: (size_t)(t - h)
RingLen(t, h) == USub(t, h)

\* The value a producer thread writes as its k-th value (bench.c:81-88
\* writes sent + i; each thread gets its own range).
Value(t, k) == (t - 1) * 100 + k

(* ------------------------------------------------------------------ *)
(* Initial state                                                       *)
(* ------------------------------------------------------------------ *)

\* The consumer's store buffer sb holds the pairs << ring, value >> of its
\* stores to head that are not in memory yet.
ConsOff == [pc |-> "off", role |-> "off", ring |-> 0, head |-> 0, tail |-> 0,
            pos |-> 0, count |-> 0, to_consume |-> 0, consumed |-> 0,
            all_count |-> 0, all_i |-> 0, total |-> 0, handled |-> << >>,
            sb |-> << >>]

\* faa_after_close records whether channel.closed was already set when the
\* thread's fetch_add on producer_count took place; reloaded, whether the
\* ring_reserve that has just returned went through its slow path; sb is the
\* thread's store buffer: the values stored to tail that are not in memory yet.
ProdOff == [pc |-> "off", role |-> "off", ring |-> NULL, id |-> 0, ret |-> NoRet,
            tail |-> 0, n |-> 0, contiguous |-> 0, slot |-> NULL, i |-> 0,
            sent |-> 0, quota |-> 0, faa_after_close |-> FALSE,
            reloaded |-> FALSE, sb |-> << >>]

CloserOff == [pc |-> "off", count |-> 0, i |-> 0]

\* channel_init: memset of the channel, ring_init of every ring
ChannelInit ==
    /\ tail = [r \in Rings |-> 0]
    /\ cached_head = [r \in Rings |-> 0]
    /\ head = [r \in Rings |-> 0]
    /\ active = [r \in Rings |-> FALSE]
    /\ closed = [r \in Rings |-> FALSE]
    /\ buffer = [r \in Rings |-> [s \in 0 .. RING_MASK |-> 0]]
    /\ producer_count = 0
    /\ ch_closed = FALSE
    /\ committed = [r \in Rings |-> << >>]
    /\ delivered = [r \in Rings |-> << >>]
    /\ oob = {}

\* Memory after the array that no step of the specification reads
BeyondUnread == beyond = [i \in OobRings |-> [head |-> 0, tail |-> 0]]

\* Memory after the array is not initialised by channel_init.  rings[i].head
\* and rings[i].buffer lie outside the channel; rings[MAX_PRODUCERS].tail is
\* the word of producer_count (ring_t.tail is the first member of ring_t and
\* producer_count follows the array), so it has no word of its own here.
\* The words of rings[i].buffer are not kept: see WordAt.
BeyondGarbage ==
    beyond \in [OobRings -> [head : Garbage, tail : Garbage]]
    /\ beyond[MAX_PRODUCERS].tail = 0

\* The word at rings[r].buffer[idx] outside the channel: memory that nothing
\* in the program has written, holding any word.  The handler is passed its
\* address; the word stands for itself, whatever it is.
WordAt(r, idx) == << "rings", r, "buffer", idx >>

\* load(&rings[r].head) from memory
HeadMem(r) == IF r \in Rings THEN head[r] ELSE beyond[r].head

\* load(&rings[r].tail) from memory
TailMem(r) ==
    IF r \in Rings THEN tail[r]
    ELSE IF r = MAX_PRODUCERS THEN producer_count
    ELSE beyond[r].tail

\* rings[r].buffer[idx]
SlotMem(r, idx) == IF r \in Rings THEN buffer[r][idx] ELSE WordAt(r, idx)

\* run_benchmark with one pair: thread 1 produces on rings[0] (no
\* registration), the consumer thread consumes rings[0].
Init ==
    /\ ChannelInit
    /\ BeyondUnread
    /\ prod = [t \in Threads |->
                 IF t = 1 THEN [ProdOff EXCEPT !.pc = "p_loop", !.role = "bench",
                                               !.ring = 0,
                                               !.quota = MESSAGES_PER_PRODUCER]
                 ELSE ProdOff]
    /\ cons = [ConsOff EXCEPT !.pc = "c_loop", !.role = "bench"]
    /\ closer = CloserOff

(* ------------------------------------------------------------------ *)
(* Producer side of a ring                                             *)
(* ------------------------------------------------------------------ *)

SetProd(t, rec) == prod' = [prod EXCEPT ![t] = rec]

\* load(&r->tail) by the producer of the ring: its newest buffered store, or
\* memory when it has none
ProdTail(t) ==
    LET sb == prod[t].sb IN
    IF sb = << >> THEN tail[prod[t].ring] ELSE sb[Len(sb)]

\* A store of the producer's buffer reaches memory
ProducerFlush(t) ==
    LET p == prod[t] IN
    /\ p.sb # << >>
    /\ tail' = [tail EXCEPT ![p.ring] = Head(p.sb)]
    /\ SetProd(t, [p EXCEPT !.sb = Tail(p.sb)])
    /\ UNCHANGED << cached_head, head, closed, buffer, committed, delivered,
                    chanVars, cons, closer >>

\* producer_send calls ring_reserve; its fast path: load tail, test the
\* cached head
RingReserveFast(t) ==
    LET p == prod[t]
        r == p.ring
        tl == ProdTail(t)
        space == Space(tl, cached_head[r])
    IN
    /\ p.pc = "p_loop"
    /\ p.sent < p.quota
    /\ IF ReserveFits(space)
       THEN SetProd(t, [p EXCEPT !.pc = "rs_ret", !.n = 1, !.tail = tl,
                                 !.slot = Idx(tl), !.contiguous = 1])
       ELSE SetProd(t, [p EXCEPT !.pc = "rs_slow", !.n = 1, !.tail = tl])
    /\ UNCHANGED << ringVars, chanVars, cons, closer >>

\* Mutant: the slow path tests the cached head again without reloading head.
RingReserveSlow_Mut(t) ==
    LET p == prod[t]
        r == p.ring
        space == Space(p.tail, cached_head[r])
    IN
    /\ p.pc = "rs_slow"
    /\ IF ReserveFits(space)
       THEN SetProd(t, [p EXCEPT !.pc = "rs_ret", !.slot = Idx(p.tail),
                                 !.contiguous = 1, !.reloaded = TRUE])
       ELSE SetProd(t, [p EXCEPT !.pc = "rs_ret", !.slot = NULL, !.contiguous = 0,
                                 !.reloaded = TRUE])
    /\ UNCHANGED << ringVars, chanVars, cons, closer >>

\* ring_reserve, slow path: refresh the cached head, test again
RingReserveSlow(t) ==
    LET p == prod[t]
        r == p.ring
        space == Space(p.tail, head[r])
    IN
    /\ p.pc = "rs_slow"
    /\ cached_head' = [cached_head EXCEPT ![r] = head[r]]
    /\ IF ReserveFits(space)
       THEN SetProd(t, [p EXCEPT !.pc = "rs_ret", !.slot = Idx(p.tail),
                                 !.contiguous = 1, !.reloaded = TRUE])
       ELSE SetProd(t, [p EXCEPT !.pc = "rs_ret", !.slot = NULL, !.contiguous = 0,
                                 !.reloaded = TRUE])
    /\ UNCHANGED << tail, head, closed, buffer, committed, delivered, chanVars,
                    cons, closer >>

\* producer_send after ring_reserve: return false, or write the slot
ProducerSendWrite(t) ==
    LET p == prod[t]
        r == p.ring
    IN
    /\ p.pc = "rs_ret"
    /\ IF p.slot = NULL
       THEN /\ SetProd(t, [p EXCEPT !.pc = "p_loop", !.n = 0, !.tail = 0,
                                      !.reloaded = FALSE])
            /\ UNCHANGED buffer
       ELSE /\ buffer' = [buffer EXCEPT ![r][p.slot] = Value(t, p.sent)]
            /\ SetProd(t, [p EXCEPT !.pc = "cm_load", !.n = 1, !.tail = 0,
                                      !.reloaded = FALSE])
    /\ UNCHANGED << tail, cached_head, head, closed, committed, delivered,
                    chanVars, cons, closer >>

\* producer_thread: one turn of the loop calls ring_reserve_n(ring, want);
\* ring_reserve_n: argument check, load tail, test the cached head
RingReserveNFast(t) ==
    LET p == prod[t]
        r == p.ring
        tl == ProdTail(t)
        space == Space(tl, cached_head[r])
    IN
    /\ p.pc = "p_loop"
    /\ p.role = "bench"
    /\ p.sent < p.quota
    /\ \E want \in 0 .. (RING_CAPACITY + 1) :
         /\ want <= p.quota - p.sent \/ want > RING_CAPACITY
         /\ IF ~ReserveNArgOk(want)
            THEN SetProd(t, [p EXCEPT !.pc = "rn_ret", !.n = want, !.slot = NULL,
                                      !.contiguous = 0])
            ELSE IF ReserveNFits(space, want)
            THEN SetProd(t, [p EXCEPT !.pc = "rn_ret", !.n = want, !.tail = tl,
                                      !.slot = Idx(tl),
                                      !.contiguous = Contiguous(tl, want)])
            ELSE SetProd(t, [p EXCEPT !.pc = "rn_slow", !.n = want, !.tail = tl])
    /\ UNCHANGED << ringVars, chanVars, cons, closer >>

\* Mutant: the slow path grants the request after the reload without testing
\* the space again.
RingReserveNSlow_Mut(t) ==
    LET p == prod[t]
        r == p.ring
    IN
    /\ p.pc = "rn_slow"
    /\ cached_head' = [cached_head EXCEPT ![r] = head[r]]
    /\ SetProd(t, [p EXCEPT !.pc = "rn_ret", !.slot = Idx(p.tail),
                            !.contiguous = Contiguous(p.tail, p.n)])
    /\ UNCHANGED << tail, head, closed, buffer, committed, delivered, chanVars,
                    cons, closer >>

\* ring_reserve_n, slow path: refresh the cached head, test again
RingReserveNSlow(t) ==
    LET p == prod[t]
        r == p.ring
        space == Space(p.tail, head[r])
    IN
    /\ p.pc = "rn_slow"
    /\ cached_head' = [cached_head EXCEPT ![r] = head[r]]
    /\ IF ReserveNFits(space, p.n)
       THEN SetProd(t, [p EXCEPT !.pc = "rn_ret", !.slot = Idx(p.tail),
                                 !.contiguous = Contiguous(p.tail, p.n)])
       ELSE SetProd(t, [p EXCEPT !.pc = "rn_ret", !.slot = NULL, !.contiguous = 0])
    /\ UNCHANGED << tail, head, closed, buffer, committed, delivered, chanVars,
                    cons, closer >>

\* producer_thread after ring_reserve_n: spin, or start writing the slots
ProducerBatchReturn(t) ==
    LET p == prod[t] IN
    /\ p.pc = "rn_ret"
    /\ IF p.slot = NULL
       THEN SetProd(t, [p EXCEPT !.pc = "p_loop", !.n = 0, !.tail = 0])
       ELSE SetProd(t, [p EXCEPT !.pc = "bw", !.i = 0, !.tail = 0])
    /\ UNCHANGED << ringVars, chanVars, cons, closer >>

\* producer_thread: slots[i] = sent + i
ProducerBatchWrite(t) ==
    LET p == prod[t]
        r == p.ring
    IN
    /\ p.pc = "bw"
    /\ buffer' = [buffer EXCEPT ![r][p.slot + p.i] = Value(t, p.sent + p.i)]
    /\ IF p.i + 1 < p.contiguous
       THEN SetProd(t, [p EXCEPT !.i = p.i + 1])
       ELSE SetProd(t, [p EXCEPT !.pc = "cm_load", !.n = p.contiguous, !.i = 0])
    /\ UNCHANGED << tail, cached_head, head, closed, committed, delivered,
                    chanVars, cons, closer >>

\* ring_commit: load tail
RingCommitLoad(t) ==
    LET p == prod[t]
        r == p.ring
    IN
    /\ p.pc = "cm_load"
    /\ SetProd(t, [p EXCEPT !.pc = "cm_store", !.tail = ProdTail(t)])
    /\ UNCHANGED << ringVars, chanVars, cons, closer >>

\* Mutant: the commit stores the masked position instead of the running index.
RingCommitStore_Mut(t) ==
    LET p == prod[t]
        r == p.ring
    IN
    /\ p.pc = "cm_store"
    /\ Len(p.sb) < StoreBufferDepth
    /\ committed' = [committed EXCEPT ![r] =
                       @ \o [k \in 1 .. p.n |-> Value(t, p.sent + k - 1)]]
    /\ SetProd(t, [p EXCEPT !.pc = "p_loop", !.sent = p.sent + p.n, !.n = 0,
                            !.tail = 0, !.contiguous = 0, !.slot = NULL,
                            !.sb = Append(@, Idx(UAdd(p.tail, p.n)))])
    /\ UNCHANGED << tail, cached_head, head, closed, buffer, delivered, chanVars,
                    cons, closer >>

\* ring_commit: store tail + n; back in the caller, sent += n
RingCommitStore(t) ==
    LET p == prod[t]
        r == p.ring
    IN
    /\ p.pc = "cm_store"
    /\ Len(p.sb) < StoreBufferDepth
    /\ committed' = [committed EXCEPT ![r] =
                       @ \o [k \in 1 .. p.n |-> Value(t, p.sent + k - 1)]]
    /\ SetProd(t, [p EXCEPT !.pc = "p_loop", !.sent = p.sent + p.n, !.n = 0,
                            !.tail = 0, !.contiguous = 0, !.slot = NULL,
                            !.sb = Append(@, UAdd(p.tail, p.n))])
    /\ UNCHANGED << tail, cached_head, head, closed, buffer, delivered, chanVars,
                    cons, closer >>

\* Mutant: ring_close without pthread_join, while the producer thread may
\* have values to send and a store of tail on its way.
ProducerClose_Mut(t) ==
    LET p == prod[t]
        r == p.ring
    IN
    /\ p.pc = "p_loop"
    /\ p.role = "bench"
    /\ closed' = [closed EXCEPT ![r] = TRUE]
    /\ SetProd(t, [p EXCEPT !.pc = "p_done"])
    /\ UNCHANGED << tail, cached_head, head, buffer, committed, delivered,
                    chanVars, cons, closer >>

\* run_benchmark: the producer has sent everything and is joined (its stores
\* are in memory), then ring_close of its ring
ProducerClose(t) ==
    LET p == prod[t]
        r == p.ring
    IN
    /\ p.pc = "p_loop"
    /\ p.role = "bench"
    /\ ~(p.sent < p.quota)
    /\ p.sb = << >>
    /\ closed' = [closed EXCEPT ![r] = TRUE]
    /\ SetProd(t, [p EXCEPT !.pc = "p_done"])
    /\ UNCHANGED << tail, cached_head, head, buffer, committed, delivered,
                    chanVars, cons, closer >>

Producer(t) ==
    \/ RingReserveFast(t)
    \/ RingReserveSlow(t)
    \/ ProducerSendWrite(t)
    \/ RingReserveNFast(t)
    \/ RingReserveNSlow(t)
    \/ ProducerBatchReturn(t)
    \/ ProducerBatchWrite(t)
    \/ RingCommitLoad(t)
    \/ RingCommitStore(t)
    \/ ProducerClose(t)

(* ------------------------------------------------------------------ *)
(* Consumer side of a ring                                             *)
(* ------------------------------------------------------------------ *)

\* What follows the return of ring_consume_batch / ring_consume_up_to:
\* consumer_thread (count += consumed, if (consumed == 0) ...), or the loop
\* of channel_consume_all (total += ..., i++).
ConsumeReturn(c, k) ==
    IF c.role = "bench"
    THEN [c EXCEPT !.pc = IF k = 0 THEN "c_closed" ELSE "c_loop",
                   !.consumed = k, !.total = UAdd(c.total, k),
                   !.head = 0, !.tail = 0, !.pos = 0, !.count = 0,
                   !.to_consume = 0]
    ELSE [c EXCEPT !.pc = IF c.all_i + 1 < c.all_count THEN "ca_loop" ELSE "ca_call",
                   !.consumed = k, !.total = UAdd(c.total, k), !.all_i = c.all_i + 1,
                   !.head = 0, !.tail = 0, !.pos = 0, !.count = 0,
                   !.to_consume = 0]

\* load(&r->head) by the consumer: its newest buffered store to the head of
\* rings[r], or memory when it has none
ConsHead(r) ==
    LET mine == SelectSeq(cons.sb, LAMBDA e : e[1] = r) IN
    IF mine = << >> THEN HeadMem(r) ELSE mine[Len(mine)][2]

\* A store of the consumer's buffer reaches memory
ConsumerFlush ==
    /\ cons.sb # << >>
    /\ LET r == Head(cons.sb)[1]
           v == Head(cons.sb)[2]
       IN IF r \in Rings
          THEN head' = [head EXCEPT ![r] = v] /\ UNCHANGED beyond
          ELSE beyond' = [beyond EXCEPT ![r].head = v] /\ UNCHANGED head
    /\ cons' = [cons EXCEPT !.sb = Tail(cons.sb)]
    /\ UNCHANGED << tail, cached_head, closed, buffer, committed, delivered,
                    active, producer_count, ch_closed, oob, prod, closer >>

\* ring_consume_batch on rings[r]: the load of head
ConsumeBatchEnter(c, r) == [c EXCEPT !.pc = "cb_tail", !.ring = r, !.head = ConsHead(r)]

\* consumer_thread: call ring_consume_batch; its load of head
ConsumeBatchCall ==
    /\ cons.pc = "c_loop"
    /\ cons.role = "bench"
    /\ cons' = ConsumeBatchEnter(cons, cons.ring)
    /\ UNCHANGED << ringVars, chanVars, prod, closer >>

\* Mutant: the early return on avail == 0 is missing and the loop tests its
\* condition after the body.
ConsumeBatchLoadTail_Mut ==
    LET r == cons.ring
        tl == TailMem(r)
    IN
    /\ cons.pc = "cb_tail"
    /\ cons' = [cons EXCEPT !.pc = "cb_handle", !.tail = tl,
                            !.pos = cons.head, !.count = 0]
    /\ UNCHANGED << ringVars, chanVars, prod, closer >>

\* ring_consume_batch: load tail, avail = tail - head, if (avail == 0) return 0
ConsumeBatchLoadTail ==
    LET r == cons.ring
        tl == TailMem(r)
    IN
    /\ cons.pc = "cb_tail"
    /\ \E avail \in Diff(tl, cons.head) :
          IF avail = 0
          THEN cons' = ConsumeReturn(cons, 0)
          ELSE cons' = [cons EXCEPT !.pc = "cb_handle", !.tail = tl,
                                    !.pos = cons.head, !.count = 0]
    /\ UNCHANGED << ringVars, chanVars, prod, closer >>

\* The log of the handler calls of a channel_consume_all call.  The calls
\* on a ring outside the array have no end the model could count to: the
\* log keeps the latest of them.
Handled(c, r, idx) ==
    IF c.role # "chan" THEN c.handled
    ELSE Append(SelectSeq(c.handled, LAMBDA e : e[1] \in Rings),
                << r, SlotMem(r, idx) >>)

\* pos and count are advanced together, from head and from 0: of the words
\* that Sum leaves open for them, those with pos = head + count.
LoopWords(h, pos, count) ==
    /\ pos \in Sum(h, count)
    /\ count \in Diff(pos, h)
    /\ h \in Diff(pos, count)

\* ring_consume_batch: one turn of while (pos != tail): the handler call,
\* pos++, count++ and the test of the next turn
ConsumeBatchHandle ==
    LET r == cons.ring
        idx == Idx(cons.pos)
    IN
    /\ cons.pc = "cb_handle"
    /\ delivered' = IF r \in Rings
                    THEN [delivered EXCEPT ![r] = Append(@, buffer[r][idx])]
                    ELSE delivered
    /\ \E pos1 \in Sum(cons.pos, 1), count1 \in Sum(cons.count, 1) :
          /\ LoopWords(cons.head, pos1, count1)
          /\ \E again \in Differ(pos1, cons.tail) :
                cons' = [cons EXCEPT !.pc = IF again THEN "cb_handle" ELSE "cb_store",
                                     !.pos = pos1, !.count = count1,
                                     !.handled = Handled(cons, r, idx)]
    /\ UNCHANGED << tail, cached_head, head, closed, buffer, committed,
                    chanVars, prod, closer >>

\* Mutant: the store publishes a re-read tail instead of the snapshot.
ConsumeBatchStore_Mut ==
    LET r == cons.ring IN
    /\ cons.pc = "cb_store"
    /\ Len(cons.sb) < StoreBufferDepth
    /\ cons' = [ConsumeReturn(cons, cons.count) EXCEPT
                   !.sb = Append(@, << r, tail[r] >>)]
    /\ UNCHANGED << ringVars, chanVars, prod, closer >>

\* ring_consume_batch: store head = tail, return count
ConsumeBatchStore ==
    LET r == cons.ring IN
    /\ cons.pc = "cb_store"
    /\ Len(cons.sb) < StoreBufferDepth
    /\ \E total \in Sum(cons.total, cons.count) :
          cons' = [ConsumeReturn(cons, cons.count) EXCEPT
                      !.total = total,
                      !.sb = Append(@, << r, cons.tail >>)]
    /\ UNCHANGED << ringVars, chanVars, prod, closer >>

\* consumer loop: call ring_consume_up_to(max_items); if (max_items == 0)
\* return 0; its load of head
ConsumeUpToCall ==
    /\ cons.pc = "c_loop"
    /\ cons.role = "bench"
    /\ \E max_items \in 0 .. MaxItems :
         IF max_items = 0
         THEN cons' = ConsumeReturn(cons, 0)
         ELSE cons' = [cons EXCEPT !.pc = "cu_tail", !.head = ConsHead(cons.ring),
                                   !.to_consume = max_items]
    /\ UNCHANGED << ringVars, chanVars, prod, closer >>

\* ring_consume_up_to: load tail, avail, to_consume = min(avail, max_items)
ConsumeUpToLoadTail ==
    LET r == cons.ring
        tl == tail[r]
        avail == USub(tl, cons.head)
        max_items == cons.to_consume
    IN
    /\ cons.pc = "cu_tail"
    /\ IF avail = 0
       THEN cons' = ConsumeReturn(cons, 0)
       ELSE cons' = [cons EXCEPT !.pc = "cu_handle", !.tail = tl,
                                 !.pos = cons.head, !.count = 0,
                                 !.to_consume = IF ULt(avail, max_items) THEN avail
                                                ELSE max_items]
    /\ UNCHANGED << ringVars, chanVars, prod, closer >>

\* ring_consume_up_to: one turn of while (count < to_consume): the handler call
ConsumeUpToHandle ==
    LET r == cons.ring
        idx == Idx(cons.pos)
        count1 == cons.count + 1
    IN
    /\ cons.pc = "cu_handle"
    /\ delivered' = [delivered EXCEPT ![r] = Append(@, buffer[r][idx])]
    /\ cons' = [cons EXCEPT !.pc = IF count1 < cons.to_consume THEN "cu_handle"
                                   ELSE "cu_store",
                            !.pos = UAdd(cons.pos, 1), !.count = count1]
    /\ UNCHANGED << tail, cached_head, head, closed, buffer, committed,
                    chanVars, prod, closer >>

\* Mutant: the store publishes the snapshotted tail, as ring_consume_batch does.
ConsumeUpToStore_Mut ==
    LET r == cons.ring IN
    /\ cons.pc = "cu_store"
    /\ Len(cons.sb) < StoreBufferDepth
    /\ cons' = [ConsumeReturn(cons, cons.count) EXCEPT
                   !.sb = Append(@, << r, cons.tail >>)]
    /\ UNCHANGED << ringVars, chanVars, prod, closer >>

\* ring_consume_up_to: store head = head + count, return count
ConsumeUpToStore ==
    LET r == cons.ring IN
    /\ cons.pc = "cu_store"
    /\ Len(cons.sb) < StoreBufferDepth
    /\ cons' = [ConsumeReturn(cons, cons.count) EXCEPT
                   !.sb = Append(@, << r, UAdd(cons.head, cons.count) >>)]
    /\ UNCHANGED << ringVars, chanVars, prod, closer >>

\* ring_is_closed: load closed
RingIsClosed(r) == closed[r]

\* Mutant: the consumer stops on closed alone, without ring_is_empty.
ConsumerCheckClosed_Mut ==
    /\ cons.pc = "c_closed"
    /\ cons' = [cons EXCEPT !.pc = IF closed[cons.ring] THEN "c_done" ELSE "c_loop"]
    /\ UNCHANGED << ringVars, chanVars, prod, closer >>

\* consumer_thread, consumed == 0: ring_is_closed(ring) && ...
ConsumerCheckClosed ==
    /\ cons.pc = "c_closed"
    /\ cons' = [cons EXCEPT !.pc = IF RingIsClosed(cons.ring) THEN "c_len_t"
                                   ELSE "c_loop"]
    /\ UNCHANGED << ringVars, chanVars, prod, closer >>

\* ring_is_empty -> ring_len: load tail
RingLenLoadTail ==
    /\ cons.pc = "c_len_t"
    /\ cons' = [cons EXCEPT !.pc = "c_len_h", !.tail = tail[cons.ring]]
    /\ UNCHANGED << ringVars, chanVars, prod, closer >>

\* ring_len: load head; ring_is_empty: len == 0; consumer_thread: break
RingLenLoadHead ==
    /\ cons.pc = "c_len_h"
    /\ cons' = [cons EXCEPT !.pc = IF RingLen(cons.tail, ConsHead(cons.ring)) = 0
                                   THEN "c_done" ELSE "c_loop",
                            !.tail = 0]
    /\ UNCHANGED << ringVars, chanVars, prod, closer >>

Consumer ==
    \/ ConsumeBatchCall
    \/ ConsumeBatchLoadTail
    \/ ConsumeBatchHandle
    \/ ConsumeBatchStore
    \/ ConsumeUpToCall
    \/ ConsumeUpToLoadTail
    \/ ConsumeUpToHandle
    \/ ConsumeUpToStore
    \/ ConsumerCheckClosed
    \/ RingLenLoadTail
    \/ RingLenLoadHead

(* ------------------------------------------------------------------ *)
(* Channel                                                             *)
(* ------------------------------------------------------------------ *)

\* Mutant: the ceiling test is off by one.
RegisterOverCeiling_Mut(id) == id > MAX_PRODUCERS

\* channel_register: the ceiling test on the value fetched from producer_count
RegisterOverCeiling(id) == id >= MAX_PRODUCERS

\* channel_register: if (load(ch->closed)) return -1
RegisterCheckClosed(t) ==
    LET p == prod[t] IN
    /\ p.pc = "reg_check"
    /\ IF ch_closed
       THEN SetProd(t, [p EXCEPT !.pc = "reg_done", !.ret = -1])
       ELSE SetProd(t, [p EXCEPT !.pc = "reg_faa"])
    /\ UNCHANGED << ringVars, chanVars, cons, closer >>

\* channel_register: id = fetch_add(producer_count, 1)
RegisterFetchAdd(t) ==
    LET p == prod[t]
        id == producer_count
    IN
    /\ p.pc = "reg_faa"
    /\ producer_count' = producer_count + 1
    /\ SetProd(t, [p EXCEPT !.pc = IF RegisterOverCeiling(id) THEN "reg_sub"
                                   ELSE "reg_active",
                            !.id = id, !.faa_after_close = ch_closed])
    /\ UNCHANGED << ringVars, active, ch_closed, oob, beyond, cons, closer >>

\* channel_register: fetch_sub(producer_count, 1); return -2
RegisterFetchSub(t) ==
    LET p == prod[t] IN
    /\ p.pc = "reg_sub"
    /\ producer_count' = producer_count - 1
    /\ SetProd(t, [p EXCEPT !.pc = "reg_done", !.ret = -2, !.id = 0])
    /\ UNCHANGED << ringVars, active, ch_closed, oob, beyond, cons, closer >>

\* channel_register: store rings[id].active = true; out->ring, out->id; return 0
RegisterActivate(t) ==
    LET p == prod[t] IN
    /\ p.pc = "reg_active"
    /\ active' = [active EXCEPT ![p.id] = TRUE]
    /\ SetProd(t, [p EXCEPT !.pc = "p_loop", !.ret = 0, !.ring = p.id])
    /\ UNCHANGED << ringVars, producer_count, ch_closed, oob, beyond, cons, closer >>

Register(t) ==
    \/ RegisterCheckClosed(t)
    \/ RegisterFetchAdd(t)
    \/ RegisterFetchSub(t)
    \/ RegisterActivate(t)

\* channel_close: store closed = true
ChannelCloseStore ==
    /\ closer.pc = "cl_store"
    /\ ch_closed' = TRUE
    /\ closer' = [closer EXCEPT !.pc = "cl_count"]
    /\ UNCHANGED << ringVars, active, producer_count, oob, beyond, prod, cons >>

\* channel_close: count = load(producer_count); i = 0
ChannelCloseCount ==
    /\ closer.pc = "cl_count"
    /\ closer' = [closer EXCEPT !.pc = IF 0 < producer_count THEN "cl_ring" ELSE "cl_done",
                                !.count = producer_count, !.i = 0]
    /\ UNCHANGED << ringVars, chanVars, prod, cons >>

\* channel_close: ring_close(&ch->rings[i]); i++
ChannelCloseRing ==
    LET i == closer.i IN
    /\ closer.pc = "cl_ring"
    /\ IF i \in Rings
       THEN closed' = [closed EXCEPT ![i] = TRUE] /\ UNCHANGED oob
       ELSE oob' = oob \cup {i} /\ UNCHANGED closed
    /\ closer' = [closer EXCEPT !.pc = IF i + 1 < closer.count THEN "cl_ring" ELSE "cl_done",
                                !.i = i + 1]
    /\ UNCHANGED << tail, cached_head, head, buffer, committed, delivered,
                    active, producer_count, ch_closed, beyond, prod, cons >>

ChannelClose ==
    \/ ChannelCloseStore
    \/ ChannelCloseCount
    \/ ChannelCloseRing

\* channel_consume_all: total = 0; count = load(producer_count); i = 0
ConsumeAllCall ==
    /\ cons.pc = "ca_call"
    /\ cons' = [cons EXCEPT !.pc = IF 0 < producer_count THEN "ca_loop" ELSE "ca_call",
                            !.all_count = producer_count, !.all_i = 0,
                            !.total = 0, !.consumed = 0, !.handled = << >>]
    /\ UNCHANGED << ringVars, chanVars, prod, closer >>

\* Mutant: the sweep runs from the last ring down to ring 0.
ConsumeAllRing_Mut ==
    LET i == cons.all_count - 1 - cons.all_i IN
    /\ cons.pc = "ca_loop"
    /\ cons' = ConsumeBatchEnter(cons, i)
    /\ oob' = IF i \in Rings THEN oob ELSE oob \cup {i}
    /\ UNCHANGED << ringVars, active, producer_count, ch_closed, beyond, prod,
                    closer >>

\* channel_consume_all: ring_consume_batch(&ch->rings[i], ...), its load of
\* head; for MAX_PRODUCERS <= i the call runs on the memory after the array
ConsumeAllRing ==
    LET i == cons.all_i IN
    /\ cons.pc = "ca_loop"
    /\ cons' = ConsumeBatchEnter(cons, i)
    /\ oob' = IF i \in Rings THEN oob ELSE oob \cup {i}
    /\ UNCHANGED << ringVars, active, producer_count, ch_closed, beyond, prod,
                    closer >>

ConsumeAll ==
    \/ ConsumeAllCall
    \/ ConsumeAllRing
    \/ ConsumeBatchLoadTail
    \/ ConsumeBatchHandle
    \/ ConsumeBatchStore

(* ------------------------------------------------------------------ *)
(* One ring, one producer, one consumer (bench.c with one pair)        *)
(* ------------------------------------------------------------------ *)

Next ==
    \/ \E t \in Threads : Producer(t)
    \/ \E t \in Threads : ProducerFlush(t)
    \/ Consumer
    \/ ConsumerFlush

Spec == Init /\ [][Next]_vars

(* ------------------------------------------------------------------ *)
(* Registration against close: NumThreads threads call                 *)
(* channel_register once each while another thread calls channel_close *)
(* ------------------------------------------------------------------ *)

InitReg ==
    /\ ChannelInit
    /\ BeyondUnread
    /\ prod = [t \in Threads |-> [ProdOff EXCEPT !.pc = "reg_check", !.role = "chan"]]
    /\ cons = ConsOff
    /\ closer = [CloserOff EXCEPT !.pc = "cl_store"]

NextReg ==
    \/ \E t \in Threads : Register(t)
    \/ ChannelClose

SpecReg == InitReg /\ [][NextReg]_vars

(* ------------------------------------------------------------------ *)
(* The channel in use: MAX_PRODUCERS threads register and send MaxSend *)
(* values each, the consumer sweeps with channel_consume_all, another  *)
(* thread calls channel_close                                          *)
(* ------------------------------------------------------------------ *)

InitChan ==
    /\ ChannelInit
    /\ BeyondUnread
    /\ prod = [t \in Threads |->
                 IF t <= MAX_PRODUCERS
                 THEN [ProdOff EXCEPT !.pc = "reg_check", !.role = "chan",
                                      !.quota = MaxSend]
                 ELSE ProdOff]
    /\ cons = [ConsOff EXCEPT !.pc = "ca_call", !.role = "chan"]
    /\ closer = [CloserOff EXCEPT !.pc = "cl_store"]

\* MAX_PRODUCERS calls never reach the ceiling and MaxSend values never
\* fill a ring, so channel_register's fetch_sub and ring_reserve's slow path
\* have no step here (ChanStepsComplete).
NextChan ==
    \/ \E t \in Threads : RegisterCheckClosed(t)
    \/ \E t \in Threads : RegisterFetchAdd(t)
    \/ \E t \in Threads : RegisterActivate(t)
    \/ \E t \in Threads : RingReserveFast(t)
    \/ \E t \in Threads : ProducerSendWrite(t)
    \/ \E t \in Threads : RingCommitLoad(t)
    \/ \E t \in Threads : RingCommitStore(t)
    \/ \E t \in Threads : ProducerFlush(t)
    \/ ConsumeAll
    \/ ConsumerFlush
    \/ ChannelClose

SpecChan == InitChan /\ [][NextChan]_vars

\* No thread of SpecChan stands before a step NextChan leaves out.
ChanStepsComplete == \A t \in Threads : prod[t].pc \notin {"reg_sub", "rs_slow"}

(* ------------------------------------------------------------------ *)
(* bench.c as written: the consumer thread only calls                  *)
(* ring_consume_batch and is scheduled fairly                          *)
(* ------------------------------------------------------------------ *)

BenchConsumer ==
    \/ ConsumeBatchCall
    \/ ConsumeBatchLoadTail
    \/ ConsumeBatchHandle
    \/ ConsumeBatchStore
    \/ ConsumerCheckClosed
    \/ RingLenLoadTail
    \/ RingLenLoadHead

NextLive ==
    \/ \E t \in Threads : Producer(t)
    \/ \E t \in Threads : ProducerFlush(t)
    \/ BenchConsumer
    \/ ConsumerFlush

\* The consumer thread is scheduled again and again, and a store buffer is
\* drained in the end.
SpecLive ==
    Init /\ [][NextLive]_vars /\ WF_vars(BenchConsumer) /\ WF_vars(ConsumerFlush)

(* ================================================================== *)
(* Properties                                                          *)
(* ================================================================== *)

IsPrefix(s, t) == Len(s) <= Len(t) /\ s = SubSeq(t, 1, Len(s))

\* The producer thread holds slots granted by a reserve and not yet committed
Granted(t) == prod[t].slot # NULL

\* The buffer slots of the indices lo, lo+1, ..., hi-1
Slots(lo, hi) == {Idx(k) : k \in lo .. (hi - 1)}

\* A step of thread t's code, and not of its store buffer alone
ProducerSteps(t) == [prod'[t] EXCEPT !.sb = << >>] # [prod[t] EXCEPT !.sb = << >>]

\* A step of the consumer's code, and not of its store buffer alone
ConsumerSteps == [cons' EXCEPT !.sb = << >>] # [cons EXCEPT !.sb = << >>]

\* The newest value stored to rings[r].tail, which its producer reads; tail[r]
\* is the value that the consumer's load returns.
TailVal(r) ==
    LET own == {t \in Threads : prod[t].ring = r /\ prod[t].sb # << >>} IN
    IF own = {} THEN tail[r] ELSE ProdTail(CHOOSE t \in own : TRUE)

\* The newest value stored to rings[r].head, which the consumer reads; head[r]
\* is the value that the producer's load returns.
HeadVal(r) == ConsHead(r)

\* C1: per-ring exactly-once FIFO delivery.  The values passed to the handler
\* are always a prefix of the values committed, and once the producer has
\* stopped and the ring is drained (head = tail) they are the same sequence.
C1_FifoDelivery ==
    \A r \in Rings :
        /\ IsPrefix(delivered[r], committed[r])
        /\ (prod[1].pc = "p_done" /\ HeadVal(r) = TailVal(r)) =>
              delivered[r] = committed[r]

\* C1 witness: the producer has stopped after MESSAGES_PER_PRODUCER values,
\* more than the buffer holds (the indices wrapped), and the ring is drained.
C1_Witness ==
    /\ prod[1].pc = "p_done"
    /\ HeadVal(0) = TailVal(0)
    /\ Len(delivered[0]) = MESSAGES_PER_PRODUCER
    /\ Len(delivered[0]) > RING_CAPACITY

\* C2: producer/consumer slot disjointness.  While a producer holds c granted
\* slots, tail + c <= head + capacity and none of the granted slots is a slot
\* of an index in [head, tail), for the head the producer can read, which is
\* not above the head the consumer has stored; the handler is only called on
\* indices below the tail the consumer can read.
C2_SlotDisjoint ==
    /\ \A t \in Threads :
          Granted(t) =>
            LET r == prod[t].ring
                c == prod[t].contiguous
                tl == ProdTail(t)
            IN /\ head[r] <= HeadVal(r)
               /\ tl + c <= head[r] + RING_CAPACITY
               /\ Slots(tl, tl + c) \cap Slots(head[r], tl) = {}
    /\ cons.pc \in {"cb_handle", "cu_handle"} =>
          (cons.pos < tail[cons.ring] /\ tail[cons.ring] <= TailVal(cons.ring))

\* C2 witness: a reserve_n granted slots up to the very slot before head while
\* the consumer is inside a batch, reading slots it has not released.
C2_Witness ==
    /\ Granted(1)
    /\ prod[1].contiguous > 1
    /\ ProdTail(1) + prod[1].contiguous = head[0] + RING_CAPACITY
    /\ head[0] > 0
    /\ cons.pc = "cb_handle"

\* C3: ring index invariant: head <= tail, tail - head <= capacity and
\* cached_head <= head, for the values in memory and for the newest values
\* stored alike: cached_head <= head in memory <= newest head <= tail in
\* memory <= newest tail <= head in memory + capacity.
C3_IndexInvariant ==
    \A r \in Rings :
        /\ cached_head[r] <= head[r]
        /\ head[r] <= HeadVal(r)
        /\ HeadVal(r) <= tail[r]
        /\ tail[r] <= TailVal(r)
        /\ TailVal(r) - head[r] <= RING_CAPACITY

\* C3 witness: a ring that is full again after the consumer has advanced
\* head and the producer has refreshed its cached head.
C3_Witness ==
    /\ TailVal(0) - head[0] = RING_CAPACITY
    /\ tail[0] < TailVal(0)
    /\ 0 < cached_head[0]
    /\ cached_head[0] = head[0]


\* A channel_register call of thread t is in flight / has returned
InRegister(t) == prod[t].pc \in {"reg_check", "reg_faa", "reg_sub", "reg_active"}
Returned(t) == prod[t].ret # NoRet
Succeeded == {t \in Threads : prod[t].ret = 0}
Min(a, b) == IF a < b THEN a ELSE b

\* C4: close cascade.  Once channel_close has returned and no
\* channel_register call is in flight, every ring below producer_count is
\* closed.
C4_CloseCascade ==
    (closer.pc = "cl_done" /\ \A t \in Threads : ~InRegister(t))
        => \A r \in Rings : r < producer_count => closed[r]

\* C5: registration ceiling.  The successful calls hold pairwise distinct
\* rings of the array; once every call has returned, the calls that were not
\* turned away by a closed channel split into min(calls, MAX_PRODUCERS)
\* successes and too_many_producers (-2) for the rest, and producer_count is
\* the number of successes.
C5_RegistrationCeiling ==
    /\ \A t \in Succeeded : prod[t].ring \in Rings /\ prod[t].ring = prod[t].id
    /\ \A t1, t2 \in Succeeded : t1 # t2 => prod[t1].ring # prod[t2].ring
    /\ (\A t \in Threads : Returned(t)) =>
         LET calls == {t \in Threads : prod[t].ret # -1} IN
         /\ Cardinality(Succeeded) = Min(Cardinality(calls), MAX_PRODUCERS)
         /\ \A t \in calls \ Succeeded : prod[t].ret = -2
         /\ producer_count = Cardinality(Succeeded)

\* C5 witness: on a channel that is still open, every call has returned and
\* one of them was turned away at the ceiling.
C5_Witness ==
    /\ ~ch_closed
    /\ \A t \in Threads : Returned(t)
    /\ \E t \in Threads : prod[t].ret = -2
    /\ Cardinality(Succeeded) = MAX_PRODUCERS

\* C6: no registration after close.  A channel_register call whose fetch-add
\* on producer_count took place after channel.closed was set returns closed
\* (-1), the one return that hands out no ring and sets no active flag.
C6_NoRegisterAfterClose ==
    \A t \in Threads :
        (prod[t].faa_after_close /\ Returned(t)) => prod[t].ret = -1

\* C7: a closed ring admits no further writes.  A ring_reserve (in
\* producer_send) called on a ring whose closed flag is set does not return
\* a slot, so that nothing is written and tail does not advance.
C7_ClosedRingNoWrites ==
    [][\A t \in Threads :
         (prod[t].pc = "p_loop" /\ closed[prod[t].ring] /\ ProducerSteps(t))
            => (prod'[t].slot = NULL /\ prod'[t].pc # "rs_slow")]_vars

\* C8: close-before-drain.  The producer closes its ring only after its last
\* commit; the consumer that stops on "consume_batch returned 0, ring closed,
\* ring empty" has then passed every committed value to the handler.
C8_CloseBeforeDrain ==
    cons.pc = "c_done" =>
        /\ delivered[0] = committed[0]
        /\ Len(committed[0]) = MESSAGES_PER_PRODUCER

\* C8 witness: the consumer's consume_batch returned 0, the producer then
\* committed its last values and closed, and the consumer has read closed as
\* true: only ring_is_empty stands between it and end-of-stream.
C8_Witness ==
    /\ cons.pc = "c_len_t"
    /\ closed[0]
    /\ tail[0] - HeadVal(0) = RING_CAPACITY

\* C9: close drain.  Once the ring is closed (its producer has stopped), the
\* fairly scheduled consumer eventually finds the ring empty with
\* consume_batch returning 0, and terminates.
C9_CloseDrain ==
    closed[0] ~> (cons.pc = "c_done" /\ HeadVal(0) = tail[0] /\ cons.consumed = 0)

\* C9 witness: the ring is closed while values are still in it and the
\* consumer is still polling.
C9_Witness ==
    /\ closed[0]
    /\ tail[0] - HeadVal(0) = RING_CAPACITY
    /\ cons.pc = "c_closed"

\* C10: ring_reserve result.  The step in which ring_reserve decides returns
\* a slot if and only if tail - head < capacity for the head of that moment,
\* the value a load of head returns to the producer then; the slot is
\* buffer[tail mod capacity], and tail is unchanged.
C10_ReserveResult ==
    [][\A t \in Threads :
         (prod[t].pc \in {"p_loop", "rs_slow"} /\ prod'[t].pc = "rs_ret") =>
            LET r == prod[t].ring
                tl == ProdTail(t)
            IN
            /\ (prod'[t].slot # NULL) <=> (tl - head[r] < RING_CAPACITY)
            /\ prod'[t].slot # NULL => prod'[t].slot = tl % RING_CAPACITY
            /\ tail' = tail /\ prod'[t].sb = prod[t].sb]_vars

\* C10 witness: ring_reserve has returned null on a full ring whose indices
\* have passed the end of the buffer.
C10_Witness ==
    /\ prod[1].pc = "rs_ret"
    /\ prod[1].slot = NULL
    /\ head[0] > 0
    /\ ProdTail(1) > RING_CAPACITY
    /\ ProdTail(1) - head[0] = RING_CAPACITY

\* C11: ring_reserve_n result.  The step in which ring_reserve_n(n) decides
\* returns null when n = 0 or n > capacity; for 1 <= n <= capacity it returns
\* null if and only if capacity - (tail - head) < n for the head a load by
\* the call returns at that moment; a granted slot is buffer[tail mod
\* capacity] with contiguous = min(n, capacity - (tail mod capacity)); tail is
\* unchanged.
C11_ReserveNResult ==
    [][\A t \in Threads :
         (prod[t].pc \in {"p_loop", "rn_slow"} /\ prod'[t].pc = "rn_ret") =>
            LET r == prod[t].ring
                n == prod'[t].n
                tl == ProdTail(t)
            IN
            /\ (n = 0 \/ n > RING_CAPACITY) => prod'[t].slot = NULL
            /\ (1 <= n /\ n <= RING_CAPACITY) =>
                  ((prod'[t].slot = NULL) <=>
                      (RING_CAPACITY - (tl - head[r]) < n))
            /\ prod'[t].slot # NULL =>
                  /\ prod'[t].slot = tl % RING_CAPACITY
                  /\ prod'[t].contiguous =
                        Min(n, RING_CAPACITY - (tl % RING_CAPACITY))
            /\ tail' = tail /\ prod'[t].sb = prod[t].sb]_vars

\* C11 witness: ring_reserve_n has granted fewer slots than asked because the
\* reservation reaches the end of the buffer, on a ring that is not empty.
C11_Witness ==
    /\ prod[1].pc = "rn_ret"
    /\ prod[1].slot # NULL
    /\ prod[1].contiguous < prod[1].n
    /\ head[0] < ProdTail(1)
    /\ cached_head[0] < head[0]

\* The step in which thread t's ring_reserve_n(n) decides, on a ring whose
\* indices are tl and hd, for the producer and for the consumer alike.
ReserveNDecides(t, n, tl, hd) ==
    /\ prod[t].pc \in {"p_loop", "rn_slow"}
    /\ prod'[t].pc = "rn_ret"
    /\ prod'[t].n = n
    /\ ProdTail(t) = tl
    /\ head[prod[t].ring] = hd
    /\ HeadVal(prod[t].ring) = hd

\* C12 as stated: wrap under reserve_n.  With capacity 8 and head = tail = 6,
\* ring_reserve_n(5) returns slot 6 with contiguous = 2; after ring_commit(2)
\* (tail = 8, head = 6) a second ring_reserve_n(5) returns slot 0 with
\* contiguous = 3.
C12_WrapAsStated ==
    [][\A t \in Threads :
         /\ ReserveNDecides(t, 5, 6, 6) =>
               (prod'[t].slot = 6 /\ prod'[t].contiguous = 2)
         /\ ReserveNDecides(t, 5, 8, 6) =>
               (prod'[t].slot = 0 /\ prod'[t].contiguous = 3)]_vars

\* C12 amended: wrap under reserve_n.  With capacity 8 and head = tail = 6,
\* ring_reserve_n(5) returns slot 6 with contiguous = 2; after ring_commit(2)
\* (tail = 8, head = 6) a second ring_reserve_n(5) returns slot 0 with
\* contiguous = 5, the whole request, since slot 0 is 8 slots from the end.
C12_WrapUnderReserveN ==
    [][\A t \in Threads :
         /\ ReserveNDecides(t, 5, 6, 6) =>
               (prod'[t].slot = 6 /\ prod'[t].contiguous = 2)
         /\ ReserveNDecides(t, 5, 8, 6) =>
               (prod'[t].slot = 0 /\ prod'[t].contiguous = 5)]_vars

\* C12 witness: the second ring_reserve_n(5) has returned, after 6 values were
\* consumed and the 2 values of the first reservation were committed.
C12_Witness ==
    /\ RING_CAPACITY = 8
    /\ prod[1].pc = "rn_ret"
    /\ prod[1].n = 5
    /\ prod[1].slot = 0
    /\ ProdTail(1) = 8
    /\ head[0] = 6
    /\ HeadVal(0) = 6
    /\ Len(committed[0]) = 8
    /\ Len(delivered[0]) = 6

\* The step issues the consumer's store of v to rings[r].head
IssuesStore(r, v) == cons'.sb = Append(cons.sb, << r, v >>)

\* C13: batch head update.  Within one ring_consume_batch call head is not
\* stored before the last handler call; the handler calls take the indices
\* head, head + 1, ... in increasing order up to the snapshotted tail; the
\* call then stores head once, advancing it by exactly the k > 0 handler
\* calls it made to the snapshotted tail, and returns k; values committed
\* after the snapshot stay in the ring.
C13_BatchHeadUpdate ==
    [][LET r == cons.ring
           hd == HeadVal(r)
       IN
       /\ cons.pc \in {"cb_tail", "cb_handle"} =>
             /\ HeadVal(r)' = hd
             /\ Len(cons'.sb) <= Len(cons.sb)
             /\ cons.head = hd
       /\ (cons.pc = "cb_handle" /\ ConsumerSteps) =>
             /\ cons.pos = hd + cons.count
             /\ cons.pos < cons.tail
             /\ cons.tail <= tail[r]
             /\ delivered'[r] = Append(delivered[r], buffer[r][Idx(hd + cons.count)])
             /\ cons'.count = cons.count + 1
             /\ Len(delivered'[r]) = hd + cons'.count
       /\ (cons.pc = "cb_store" /\ cons'.pc # "cb_store") =>
             /\ cons.count > 0
             /\ cons'.consumed = cons.count
             /\ IssuesStore(r, hd + cons.count)
             /\ HeadVal(r)' = cons.tail
             /\ Len(delivered[r]) = HeadVal(r)'
             /\ delivered' = delivered /\ head' = head]_vars

\* C13 witness: a ring_consume_batch call has returned k >= 3 after storing
\* head, while values committed after its snapshot of tail are still in the ring.
C13_Witness ==
    /\ cons.pc = "c_loop"
    /\ cons.consumed > MaxItems
    /\ cons.consumed >= 3
    /\ HeadVal(0) > RING_CAPACITY
    /\ HeadVal(0) < tail[0]
    /\ head[0] = HeadVal(0) - cons.consumed
    /\ Len(delivered[0]) = HeadVal(0)

\* C14: ring_consume_up_to(max).  With max = 0 or an empty ring the call
\* returns 0 without a store to head.  Otherwise it takes
\* min(tail - head, max) items for the tail it snapshots, calls the handler on
\* the indices head, head + 1, ... in increasing order, returns that count and
\* stores head advanced by exactly that count.
C14_ConsumeUpTo ==
    [][LET r == cons.ring IN
       /\ (cons.pc = "c_loop" /\ cons'.pc = "c_closed") =>
             \* max_items == 0
             /\ cons'.consumed = 0
             /\ cons'.sb = cons.sb /\ head' = head /\ delivered' = delivered
       /\ cons.pc \in {"cu_tail", "cu_handle"} =>
             /\ HeadVal(r)' = HeadVal(r)
             /\ Len(cons'.sb) <= Len(cons.sb)
             /\ cons.head = HeadVal(r)
       /\ (cons.pc = "cu_tail" /\ ConsumerSteps) =>
             IF tail[r] = HeadVal(r)
             THEN cons'.consumed = 0 /\ cons'.pc = "c_closed" /\ delivered' = delivered
             ELSE /\ cons'.pc = "cu_handle"
                  /\ cons'.tail = tail[r]
                  /\ cons'.to_consume = Min(tail[r] - HeadVal(r), cons.to_consume)
                  /\ cons'.to_consume > 0
       /\ (cons.pc = "cu_handle" /\ ConsumerSteps) =>
             /\ cons.count < cons.to_consume
             /\ cons.pos = HeadVal(r) + cons.count
             /\ delivered'[r] =
                   Append(delivered[r], buffer[r][Idx(HeadVal(r) + cons.count)])
             /\ cons'.count = cons.count + 1
       /\ (cons.pc = "cu_store" /\ cons'.pc # "cu_store") =>
             /\ cons.count = cons.to_consume
             /\ cons.count <= cons.tail - HeadVal(r)
             /\ cons.count <= MaxItems
             /\ cons'.consumed = cons.count
             /\ IssuesStore(r, HeadVal(r) + cons.count)
             /\ HeadVal(r)' = HeadVal(r) + cons.count
             /\ Len(delivered[r]) = HeadVal(r)'
             /\ delivered' = delivered /\ head' = head]_vars

\* C14 witness: ring_consume_up_to has called the handler max times on a ring
\* that held more than max items at the snapshot, past the end of the buffer.
C14_Witness ==
    /\ cons.pc = "cu_store"
    /\ cons.count = MaxItems
    /\ cons.tail - cons.head > MaxItems
    /\ cons.head < RING_CAPACITY
    /\ cons.head + cons.count > RING_CAPACITY

\* C15: empty consume is a no-op.  A ring_consume_batch call that snapshots a
\* tail equal to head returns 0 without a handler call and leaves head, tail
\* and the buffer as they were; the consumer is left in a state that depends
\* on nothing but its running total, so a repeated call ends in the same state.
C15_EmptyConsumeNoOp ==
    [][LET r == cons.ring IN
       /\ (cons.pc = "c_loop" /\ cons'.pc = "cb_tail") =>
             (cons'.head = HeadVal(r) /\ UNCHANGED ringVars)
       /\ (cons.pc = "cb_tail" /\ cons'.pc # "cb_tail" /\ tail[r] = cons.head) =>
             /\ cons'.consumed = 0
             /\ head' = head /\ tail' = tail /\ buffer' = buffer
             /\ HeadVal(r)' = HeadVal(r) /\ TailVal(r)' = TailVal(r)
             /\ delivered' = delivered
             /\ cons' = [cons EXCEPT !.pc = "c_closed", !.consumed = 0, !.head = 0]
             /\ cons' = [ConsOff EXCEPT !.pc = "c_closed", !.role = "bench",
                                        !.total = cons.total, !.sb = cons.sb]]_vars

\* C15 witness: a consume call has returned 0 on a ring that is empty after
\* its indices passed the end of the buffer, with the producer still running.
C15_Witness ==
    /\ cons.pc = "c_closed"
    /\ cons.consumed = 0
    /\ HeadVal(0) = tail[0]
    /\ HeadVal(0) > RING_CAPACITY
    /\ ~closed[0]
    /\ delivered[0] = committed[0]

\* C16: index monotonicity.  In every step head and tail of every ring do not
\* decrease, neither the newest values stored nor the values in memory that
\* the other thread loads; the newest tail changes only in the store of a
\* ring_commit(n), to tail + n with n >= 0, and the newest head only in the
\* store of a consume call, to a value not below the previous head; the value
\* in memory only moves up to a value that was stored.
C16_IndexMonotonic ==
    [][\A r \in Rings :
         /\ head'[r] >= head[r]
         /\ tail'[r] >= tail[r]
         /\ HeadVal(r)' >= HeadVal(r)
         /\ TailVal(r)' >= TailVal(r)
         /\ TailVal(r)' # TailVal(r) =>
               \E t \in Threads :
                  /\ prod[t].pc = "cm_store"
                  /\ prod[t].ring = r
                  /\ prod[t].n >= 0
                  /\ TailVal(r)' = TailVal(r) + prod[t].n
         /\ HeadVal(r)' # HeadVal(r) =>
               /\ cons.pc \in {"cb_store", "cu_store"}
               /\ cons.ring = r
               /\ HeadVal(r)' <= tail[r]
         /\ tail'[r] # tail[r] => tail'[r] <= TailVal(r)
         /\ head'[r] # head[r] => head'[r] <= HeadVal(r)]_vars

\* C16 witness: after commits and consumes the write position has wrapped
\* below the read position while the index tail is above the index head.
C16_Witness ==
    /\ head[0] > 0
    /\ head[0] = HeadVal(0)
    /\ tail[0] = TailVal(0)
    /\ tail[0] > RING_CAPACITY
    /\ tail[0] > head[0]
    /\ Idx(tail[0]) < Idx(head[0])
    /\ prod[1].pc = "p_loop"
    /\ cons.pc = "c_loop"

\* The handler calls of the current channel_consume_all call on ring r
HandledOf(r) == SelectSeq(cons.handled, LAMBDA e : e[1] = r)

\* The last n values the handler was called on for ring r, tagged with r
LastDelivered(r, n) ==
    [k \in 1 .. n |-> << r, delivered[r][Len(delivered[r]) - n + k] >>]

\* Ring 0's handler calls of the current sweep, then ring 1's, ... up to ring r
RECURSIVE SweepConcat(_)
SweepConcat(r) ==
    IF r < 0 THEN << >>
    ELSE SweepConcat(r - 1) \o LastDelivered(r, Len(HandledOf(r)))

SweepInv ==
    LET h == cons.handled IN
    cons.role = "chan" =>
       /\ \A i, j \in 1 .. Len(h) : i < j => h[i][1] <= h[j][1]
       /\ \A i \in 1 .. Len(h) : h[i][1] < cons.all_count
       /\ \A r \in Rings : IsPrefix(delivered[r], committed[r])
       /\ h = SweepConcat(MAX_PRODUCERS - 1)
       /\ cons.total + cons.count = Len(h)
       /\ cons.pc = "ca_call" => cons.total = Len(h)

SweepStep ==
    /\ (cons.pc = "ca_call" /\ ConsumerSteps) =>
          (cons'.all_count = producer_count /\ cons'.all_i = 0)
    /\ (cons.role = "chan" /\ cons.pc # "ca_call") =>
          /\ cons'.all_count = cons.all_count
          /\ cons'.all_i \in {cons.all_i, cons.all_i + 1}
          /\ cons.all_i < cons.all_count
          /\ cons'.pc = "ca_call" => cons'.all_i = cons.all_count
    /\ (cons.pc = "ca_loop" /\ ConsumerSteps) => cons'.ring = cons.all_i
    /\ (cons.role = "chan" /\ cons.pc = "cb_handle" /\ ConsumerSteps) =>
          /\ cons.ring = cons.all_i
          /\ cons'.handled = Append(cons.handled,
                << cons.all_i,
                   buffer[cons.all_i][Idx(HeadVal(cons.all_i) + cons.count)] >>)

\* C17: channel_consume_all sweep order.  One call reads producer_count once,
\* at its start, and runs ring_consume_batch on rings 0, 1, ...,
\* producer_count - 1 in increasing order: its handler calls are ring 0's,
\* then ring 1's, and so on, each ring's in that ring's FIFO order, and the
\* total it returns is the number of handler calls it made.
C17_SweepOrder == [](SweepInv) /\ [][SweepStep]_vars

\* C17 witness: one channel_consume_all call has returned after delivering
\* every value of every ring in that one sweep, MaxSend handler calls in a
\* row on each ring, the producers being done.
C17_Witness ==
    /\ cons.pc = "ca_call"
    /\ MaxSend >= 2
    /\ cons.total = MAX_PRODUCERS * MaxSend
    /\ Len(cons.handled) = cons.total
    /\ \A r \in Rings : Len(HandledOf(r)) = MaxSend
    /\ \A k \in 1 .. Len(cons.handled) :
          cons.handled[k] =
             << (k - 1) \div MaxSend,
                committed[(k - 1) \div MaxSend][((k - 1) % MaxSend) + 1] >>
    /\ \A r \in Rings : HeadVal(r) = TailVal(r) /\ delivered[r] = committed[r]

(* ------------------------------------------------------------------ *)
(* MAX_PRODUCERS + ExtraCalls concurrent channel_register calls with   *)
(* channel_close and a consumer that calls channel_consume_all         *)
(* ------------------------------------------------------------------ *)

InitSweep ==
    /\ ChannelInit
    /\ BeyondGarbage
    /\ prod = [t \in Threads |-> [ProdOff EXCEPT !.pc = "reg_check", !.role = "chan"]]
    /\ cons = [ConsOff EXCEPT !.pc = "ca_call", !.role = "chan"]
    /\ closer = [CloserOff EXCEPT !.pc = "cl_store"]

\* Nothing is sent: the handler is only called on a ring outside the array.
NextSweep ==
    \/ \E t \in Threads : Register(t)
    \/ ChannelClose
    \/ ConsumeAll
    \/ ConsumerFlush

SpecSweep == InitSweep /\ [][NextSweep]_vars

\* C18: ring accesses stay inside the ring array.  While channel_register
\* calls, more of them than MAX_PRODUCERS, run with channel_close and
\* channel_consume_all, the producer_count these two read is never above
\* MAX_PRODUCERS and they touch no ring index >= MAX_PRODUCERS.
C18_RingAccessInside ==
    /\ closer.count <= MAX_PRODUCERS
    /\ cons.all_count <= MAX_PRODUCERS
    /\ oob = {}

\* What a ring_reserve call of thread t does around a full ring, where full
\* says that the ring holds capacity items and stale that the cached head
\* is at tail - capacity: on a full ring ring_reserve returns null and
\* producer_send, which called it, returns false, both leaving tail, head and
\* the buffer as they were; with a stale cached head ring_reserve takes its
\* slow path, reloads head into cached_head and, the ring not being full,
\* returns the slot tail mod capacity.
Backpressure(t, full) ==
    LET p == prod[t]
        r == p.ring
        tl == ProdTail(t)
        stale == tl - cached_head[r] = RING_CAPACITY
    IN
    \* ring_reserve decides on a full ring
    /\ (p.pc \in {"p_loop", "rs_slow"} /\ prod'[t].pc = "rs_ret" /\ full) =>
          /\ prod'[t].slot = NULL
          /\ tail' = tail /\ head' = head /\ buffer' = buffer
          /\ prod'[t].sb = p.sb /\ cons'.sb = cons.sb
    \* producer_send returns false
    /\ (p.pc = "rs_ret" /\ p.slot = NULL /\ ProducerSteps(t)) =>
          /\ prod'[t].pc = "p_loop"
          /\ prod'[t].sent = p.sent
          /\ tail' = tail /\ head' = head /\ buffer' = buffer
          /\ prod'[t].sb = p.sb /\ cons'.sb = cons.sb
          /\ committed' = committed
    \* the next ring_reserve starts with the stale cached head
    /\ (p.pc = "p_loop" /\ prod'[t].pc \in {"rs_ret", "rs_slow"} /\ stale) =>
          prod'[t].pc = "rs_slow"
    \* the slow path after the consumer has moved head
    /\ (p.pc = "rs_slow" /\ ProducerSteps(t)) =>
          /\ stale
          /\ cached_head'[r] = head[r]
          /\ ~full =>
                /\ cached_head[r] < head[r]
                /\ prod'[t].slot = tl % RING_CAPACITY
                /\ prod'[t].pc = "rs_ret"
                /\ tail' = tail /\ prod'[t].sb = p.sb

\* C19 as stated: backpressure and recovery through the cached head.  On a
\* ring with tail - head = capacity ring_reserve and producer_send fail and
\* leave tail, head and the buffer unchanged; after the consumer has consumed
\* at least one item (its consume call has stored the new head), the
\* producer's very next ring_reserve succeeds on its slow path and returns the
\* slot tail mod capacity.
C19_RecoveryAsStated ==
    [][\A t \in Threads :
         prod[t].ring \in Rings =>
            Backpressure(t, ProdTail(t) - HeadVal(prod[t].ring) = RING_CAPACITY)]_vars

\* C19 amended: backpressure and recovery through the cached head.  On a ring
\* with tail - head = capacity ring_reserve and producer_send fail and leave
\* tail, head and the buffer unchanged; after the consumer has consumed at
\* least one item and its store to head has reached the producer (the
\* producer's load of head returns a value above tail - capacity), the
\* producer's very next ring_reserve succeeds on its slow path and returns
\* the slot tail mod capacity; until then ring_reserve fails as on the full
\* ring.
C19_BackpressureRecovery ==
    [][\A t \in Threads :
         prod[t].ring \in Rings =>
            /\ Backpressure(t, ProdTail(t) - head[prod[t].ring] = RING_CAPACITY)
            /\ ProdTail(t) - HeadVal(prod[t].ring) = RING_CAPACITY =>
                  ProdTail(t) - head[prod[t].ring] = RING_CAPACITY]_vars

\* C19 witness: on a ring that was full, with indices past the end of the
\* buffer, ring_reserve has come back from its slow path with a slot after
\* the consumer took items.
C19_Witness ==
    /\ prod[1].pc = "rs_ret"
    /\ prod[1].reloaded
    /\ prod[1].slot # NULL
    /\ prod[1].slot = Idx(ProdTail(1))
    /\ ProdTail(1) > RING_CAPACITY
    /\ cached_head[0] > 0
    /\ Len(delivered[0]) >= cached_head[0]

\* The unsigned space expression of ring_reserve and ring_reserve_n has not
\* wrapped: it equals the integer capacity - (tail - cached_head).
SpaceInRange ==
    \A r \in Rings :
       LET tl == TailVal(r) IN
       /\ cached_head[r] <= head[r]
       /\ tl - cached_head[r] <= RING_CAPACITY
       /\ Space(tl, cached_head[r]) = RING_CAPACITY - (tl - cached_head[r])
       /\ Space(tl, head[r]) = RING_CAPACITY - (tl - head[r])

\* A reserve call that succeeds in its first step, on the cached head alone
FastPathGrant(t) ==
    /\ prod[t].pc = "p_loop"
    /\ prod'[t].pc \in {"rs_ret", "rn_ret"}
    /\ prod'[t].slot # NULL

\* C20: the space computation never underflows.  With every ring_commit(n)
\* following a reserve that granted n slots, tail - cached_head <= capacity in
\* every reachable state, so capacity - (tail - cached_head) does not wrap,
\* and a reserve that succeeds on its fast path has real free space
\* capacity - (tail - head) of at least the slots it asked for and was granted.
C20_SpaceNoUnderflow ==
    /\ [](SpaceInRange)
    /\ [][\A t \in Threads :
            FastPathGrant(t) =>
               LET r == prod[t].ring
                   tl == ProdTail(t)
               IN
               /\ tl = TailVal(r)
               /\ RING_CAPACITY - (tl - head[r]) >= prod'[t].n
               /\ prod'[t].n >= prod'[t].contiguous
               /\ RING_CAPACITY - (tl - head[r]) >= prod'[t].contiguous]_vars

\* C20 witness: ring_reserve has succeeded on its fast path with exactly one
\* slot of space by a cached head that is behind head, past the first wrap.
C20_Witness ==
    /\ prod[1].pc = "rs_ret"
    /\ ~prod[1].reloaded
    /\ prod[1].slot # NULL
    /\ cached_head[0] > 0
    /\ cached_head[0] < head[0]
    /\ ProdTail(1) - cached_head[0] = RING_CAPACITY - 1
    /\ ProdTail(1) > RING_CAPACITY
====
